---- MODULE Spec2Model ----
(***************************************************************************)
(* Model of the nswspatial library: the HTTP helper _get_json of           *)
(* nswspatial/cadastre.py (retry on transient transport failure, ArcGIS    *)
(* error payload detection), the business functions that call the remote   *)
(* services, and the request parameters built by address_to_point.         *)
(*                                                                         *)
(* Response bodies are JSON objects, the `dict` that _get_json and         *)
(* _raise_if_arcgis_error declare; the `error` member of a body is absent, *)
(* null, or an object with optional `message` and `details`.               *)
(* Durations are in tenths of a second.                                    *)
(***************************************************************************)
EXTENDS Integers, Sequences, FiniteSets, TLC

VARIABLES
    retries,     \* _get_json parameter `retries`
    debug,       \* _get_json parameter `debug`
    jsonErrCls,  \* class of the exception r.json() raises in the installed requests
    script,      \* the transport: outcome of the request with 0-based index k is script[k+1]
    pc,          \* "idle" | "loop" | "done"
    attempt,     \* loop variable of _get_json
    last_exc,    \* local last_exc of _get_json
    sleep_s,     \* local sleep_s of the last backoff: <<pre-jitter, jitter>>
    requests,    \* HTTP requests issued by the current call
    responses,   \* requests of the current call that received an HTTP response
    sleeps,      \* pre-jitter durations of the time.sleep calls of the current call
    diag,        \* number of diagnostic print() lines of the current call
    result,      \* terminal outcome of the current call, as the caller sees it
    lastOutcome, \* transport outcome of the latest request of the current call
    callNo,      \* number of calls started so far
    prev,        \* what the caller observed of the previous call
    libpc,       \* position in a business function: "none" | "idle" | "client" | "query" | "done"
    fn,          \* the business function called
    wrapped,     \* whether it is called through _run_arcgis_call
    sentParams,  \* the params mapping of the latest outgoing request of a business function
    oid,         \* local oid of lot_geometry_mga_from_point
    libResult,   \* terminal outcome of the business function, as its caller sees it
    features,    \* lots_plans_from_point: the list js.get("features") or []
    out,         \* lots_plans_from_point: the list it returns
    lotpc        \* lots_plans_from_point: "none" | "js" (line 134 reached) | "done"

libvars == <<libpc, fn, wrapped, sentParams, oid, libResult>>

lotvars == <<features, out, lotpc>>

vars == <<retries, debug, jsonErrCls, script, pc, attempt, last_exc, sleep_s,
          requests, responses, sleeps, diag, result, lastOutcome, callNo, prev,
          libpc, fn, wrapped, sentParams, oid, libResult, features, out, lotpc>>

(***************************************************************************)
(* Bounds of the model.                                                    *)
(***************************************************************************)
MaxRetries == 3
MaxCalls == 2
MaxData == 2

(***************************************************************************)
(* JSON bodies.                                                            *)
(***************************************************************************)
None == "None"

RETRYABLE_ARCGIS_MESSAGES == {"error performing query operation", "failed to execute query"}

Messages == {None, "x", "error performing query operation"}

\* the value of the `error` member of a body
ErrorValues ==
    {[kind |-> "absent", message |-> None, details |-> None],
     [kind |-> "null", message |-> None, details |-> None]}
    \cup {[kind |-> "object", message |-> m, details |-> d] :
             m \in Messages, d \in {None}}
    \cup {[kind |-> "object", message |-> "error performing query operation", details |-> "d"]}

AbsentError == [kind |-> "absent", message |-> None, details |-> None]

\* a parsed JSON object: its `error` member and the rest of its members
Bodies ==
    {[error |-> AbsentError, data |-> n] : n \in 0..MaxData}
    \cup {[error |-> e, data |-> 0] : e \in ErrorValues \ {AbsentError}}

NoBody == [error |-> AbsentError, data |-> -1]

(***************************************************************************)
(* Transport outcomes of one requests.get.                                 *)
(***************************************************************************)
Outcomes ==
    {[t |-> x, js |-> NoBody] : x \in {"Timeout", "ConnectionError", "status", "badjson"}}
    \cup {[t |-> "json", js |-> b] : b \in Bodies}

NoOutcome == [t |-> "none", js |-> NoBody]

\* requests.get returned a response object (no transport exception)
Responded(o) == o.t \in {"status", "badjson", "json"}

(***************************************************************************)
(* Exceptions and terminal outcomes.                                       *)
(***************************************************************************)
NoExc == [cls |-> None, label |-> None, message |-> None, details |-> None, cause |-> None]

Exc(cls) == [cls |-> cls, label |-> None, message |-> None, details |-> None, cause |-> None]

RuntimeError(label, message, details, cause) ==
    [cls |-> "RuntimeError", label |-> label, message |-> message,
     details |-> details, cause |-> cause]

\* the outcome of a business function: value is the list it returns
NoLibResult == [kind |-> "none", exc |-> NoExc, value |-> <<>>]

LibReturned(v) == [kind |-> "return", exc |-> NoExc, value |-> v]

LibReturnedNone == [kind |-> "return_none", exc |-> NoExc, value |-> <<>>]

LibRaised(e) == [kind |-> "raise", exc |-> e, value |-> <<>>]

NoResult == [kind |-> "none", exc |-> NoExc, value |-> NoBody]

Returned_Projected(js) ==
    [kind |-> "return", exc |-> NoExc, value |-> [error |-> js.error, data |-> 0]]

\* return js
Returned(js) == [kind |-> "return", exc |-> NoExc, value |-> js]

Raised(e) == [kind |-> "raise", exc |-> e, value |-> NoBody]

\* `"error" in js`
HasErrorKey(js) == js.error.kind # "absent"

\* js.get("error") or {}
ErrOrEmpty(js) ==
    IF js.error.kind = "object" THEN js.error
    ELSE [kind |-> "object", message |-> None, details |-> None]

\* _raise_if_arcgis_error: the exception it raises, NoExc when it returns
RaiseIfArcgisError(js) ==
    IF HasErrorKey(js)
    THEN RuntimeError("ArcGIS error", ErrOrEmpty(js).message, ErrOrEmpty(js).details, None)
    ELSE NoExc

\* lines 72-80, the body of the try statement: what it raises (NoExc when it returns js)
TryRaises(o, jcls) ==
    CASE o.t \in {"Timeout", "ConnectionError"} -> Exc(o.t)
      [] o.t = "status" -> Exc("HTTPError")
      [] o.t = "badjson" -> Exc(jcls)
      [] OTHER -> RaiseIfArcgisError(o.js)

TryBody_DebugSkipsCheck(o, jcls, dbg) ==
    IF dbg /\ o.t = "json" THEN NoExc ELSE TryRaises(o, jcls)

\* lines 67-80 with the debug flag: the prints under `if debug` raise nothing and skip
\* nothing, so the try body raises what it raises without them
TryBody(o, jcls, dbg) == TryRaises(o, jcls)

\* except (requests.exceptions.Timeout, requests.exceptions.ConnectionError)
CaughtTransient_JSONDecodeError(cls) ==
    cls \in {"Timeout", "ConnectionError", "RequestsJSONDecodeError", "ValueError"}

CaughtTransient_AnyResponse(cls) ==
    cls \in {"Timeout", "ConnectionError", "HTTPError", "RequestsJSONDecodeError", "ValueError"}

CaughtTransient_RuntimeError(cls) == cls \in {"Timeout", "ConnectionError", "RuntimeError"}

CaughtTransient_HTTPError(cls) == cls \in {"Timeout", "ConnectionError", "HTTPError"}


CaughtTransient(cls) == cls \in {"Timeout", "ConnectionError"}

\* except requests.exceptions.RequestException
CaughtRequestException(cls) ==
    cls \in {"Timeout", "ConnectionError", "HTTPError", "RequestsJSONDecodeError"}

\* if attempt >= retries: break
Exhausted_Early(a, r) == a + 1 >= r

Exhausted(a, r) == a >= r

\* range(retries + 1)
AttemptRange(r) == 0..r

RECURSIVE Pow2(_)
Pow2(k) == IF k = 0 THEN 1 ELSE 2 * Pow2(k - 1)

Backoff_AfterIncrement(a) == 6 * Pow2(a + 1)

\* 0.6 * (2 ** attempt), in tenths of a second
Backoff(a) == 6 * Pow2(a)

\* random.uniform(0, 0.4), in tenths of a second
Jitters == {0, 3}

\* print() lines of one pass through the try body when debug is set
TryDiag(o) == 2 + (IF o.t = "json" /\ HasErrorKey(o.js) THEN 1 ELSE 0)

(***************************************************************************)
(* The transport is deterministic: the request with index k always has the *)
(* outcome script[k+1]; the script is revealed as requests are made.       *)
(***************************************************************************)
Transport(k, o) ==
    IF k < Len(script) THEN o = script[k + 1] /\ UNCHANGED script
    ELSE o \in Outcomes /\ script' = Append(script, o)

\* what the caller keeps of a finished call, and whether the next call has the same
\* url, params, timeout and retries
Observed(same) ==
    [result |-> result, requests |-> requests, sleeps |-> sleeps,
     lastOutcome |-> lastOutcome, debug |-> debug, same |-> same]

NoPrev ==
    [result |-> NoResult, requests |-> 0, sleeps |-> <<>>,
     lastOutcome |-> NoOutcome, debug |-> FALSE, same |-> FALSE]

\* lines 62-64: the local state at the entry of a call
EntryState_Carried(a, l) == [attempt |-> a, last_exc |-> l]

EntryState(a, l) == [attempt |-> 0, last_exc |-> NoExc]

Init ==
    /\ retries \in 0..MaxRetries
    /\ debug \in BOOLEAN
    /\ jsonErrCls \in {"RequestsJSONDecodeError", "ValueError"}
    /\ script = <<>>
    /\ pc = "idle"
    /\ attempt = 0
    /\ last_exc = NoExc
    /\ sleep_s = <<0, 0>>
    /\ requests = 0
    /\ responses = 0
    /\ sleeps = <<>>
    /\ diag = 0
    /\ result = NoResult
    /\ lastOutcome = NoOutcome
    /\ callNo = 0
    /\ prev = NoPrev
    /\ libpc = "none"
    /\ fn = "none"
    /\ wrapped = FALSE
    /\ sentParams = <<>>
    /\ oid = 0
    /\ libResult = NoLibResult
    /\ features = <<>>
    /\ out = <<>>
    /\ lotpc = "none"

\* line 98: raise RuntimeError("Network timeout talking to ...") from last_exc
NetworkTimeout(last) == Raised(RuntimeError("Network timeout", None, None, last.cls))

\* lines 62-66: the entry of _get_json, up to the first pass through the loop
Enter ==
    /\ callNo < MaxCalls
    /\ callNo' = callNo + 1
    /\ attempt' = EntryState(attempt, last_exc).attempt
    /\ last_exc' = EntryState(attempt, last_exc).last_exc
    /\ IF attempt' \in AttemptRange(retries)
       THEN pc' = "loop" /\ result' = NoResult
       ELSE pc' = "done" /\ result' = NetworkTimeout(last_exc')
    /\ requests' = 0
    /\ responses' = 0
    /\ sleeps' = <<>>
    /\ diag' = 0
    /\ sleep_s' = <<0, 0>>
    /\ lastOutcome' = NoOutcome
    /\ UNCHANGED <<retries, jsonErrCls>>
    /\ UNCHANGED lotvars

\* a caller calls _get_json(url, params, timeout, debug, retries) for a new request
GetJsonEnter ==
    /\ pc \in {"idle", "done"}
    /\ Enter
    /\ script' = <<>>
    /\ prev' = Observed(FALSE)
    /\ UNCHANGED debug
    /\ UNCHANGED libvars

\* a caller calls _get_json again with the url, params, timeout and retries of the
\* call before, and any debug flag
GetJsonAgain ==
    /\ pc = "done"
    /\ Enter
    /\ prev' = Observed(TRUE)
    /\ debug' \in BOOLEAN
    /\ UNCHANGED script
    /\ UNCHANGED libvars

\* what every pass through the loop body does first: lines 68-72
Request(o) ==
    /\ pc = "loop"
    /\ Transport(attempt, o)
    /\ requests' = requests + 1
    /\ responses' = responses + (IF Responded(o) THEN 1 ELSE 0)
    /\ lastOutcome' = o
    /\ UNCHANGED <<retries, debug, jsonErrCls, callNo, prev>>
    /\ UNCHANGED libvars
    /\ UNCHANGED lotvars

\* lines 72-80: the try body completes and _get_json returns js
AttemptReturn ==
    \E o \in Outcomes :
        /\ Request(o)
        /\ TryBody(o, jsonErrCls, debug) = NoExc
        /\ result' = Returned(o.js)
        /\ pc' = "done"
        /\ diag' = diag + (IF debug THEN TryDiag(o) ELSE 0)
        /\ UNCHANGED <<attempt, last_exc, sleep_s, sleeps>>

\* lines 82-91: a transient failure with retries left: back off and go round again
AttemptRetry ==
    \E o \in Outcomes, j \in Jitters :
        /\ Request(o)
        /\ TryBody(o, jsonErrCls, debug) # NoExc
        /\ CaughtTransient(TryBody(o, jsonErrCls, debug).cls)
        /\ ~Exhausted(attempt, retries)
        /\ last_exc' = TryBody(o, jsonErrCls, debug)
        /\ sleep_s' = <<Backoff(attempt), j>>
        /\ sleeps' = Append(sleeps, Backoff(attempt))
        /\ diag' = diag + (IF debug THEN TryDiag(o) + 1 ELSE 0)
        /\ attempt' = attempt + 1
        /\ IF attempt' \in AttemptRange(retries)
           THEN pc' = "loop" /\ result' = NoResult
           ELSE pc' = "done" /\ result' = NetworkTimeout(last_exc')

\* lines 82-85 and 98: a transient failure with no retry left
AttemptBreak ==
    \E o \in Outcomes :
        /\ Request(o)
        /\ TryBody(o, jsonErrCls, debug) # NoExc
        /\ CaughtTransient(TryBody(o, jsonErrCls, debug).cls)
        /\ Exhausted(attempt, retries)
        /\ last_exc' = TryBody(o, jsonErrCls, debug)
        /\ result' = NetworkTimeout(last_exc')
        /\ pc' = "done"
        /\ diag' = diag + (IF debug THEN TryDiag(o) ELSE 0)
        /\ UNCHANGED <<attempt, sleep_s, sleeps>>

\* lines 93-95: raise RuntimeError(f"HTTP error: {ex}") from ex
AttemptHttpError ==
    \E o \in Outcomes :
        /\ Request(o)
        /\ TryBody(o, jsonErrCls, debug) # NoExc
        /\ ~CaughtTransient(TryBody(o, jsonErrCls, debug).cls)
        /\ CaughtRequestException(TryBody(o, jsonErrCls, debug).cls)
        /\ result' = Raised(RuntimeError("HTTP error", None, None, TryBody(o, jsonErrCls, debug).cls))
        /\ pc' = "done"
        /\ diag' = diag + (IF debug THEN TryDiag(o) ELSE 0)
        /\ UNCHANGED <<attempt, last_exc, sleep_s, sleeps>>

\* an exception of the try body that no except clause names leaves _get_json as it is
AttemptPropagate ==
    \E o \in Outcomes :
        /\ Request(o)
        /\ TryBody(o, jsonErrCls, debug) # NoExc
        /\ ~CaughtTransient(TryBody(o, jsonErrCls, debug).cls)
        /\ ~CaughtRequestException(TryBody(o, jsonErrCls, debug).cls)
        /\ result' = Raised(TryBody(o, jsonErrCls, debug))
        /\ pc' = "done"
        /\ diag' = diag + (IF debug THEN TryDiag(o) ELSE 0)
        /\ UNCHANGED <<attempt, last_exc, sleep_s, sleeps>>

Next ==
    \/ GetJsonEnter
    \/ GetJsonAgain
    \/ AttemptReturn
    \/ AttemptRetry
    \/ AttemptBreak
    \/ AttemptHttpError
    \/ AttemptPropagate

Spec == Init /\ [][Next]_vars

(***************************************************************************)
(* Strings are sequences of characters; a request parameter value is a     *)
(* string or an integer.                                                   *)
(***************************************************************************)
MaxAddrLen == 5
MaxSuburbLen == 2
MaxPostcodeLen == 2

StrV(str) == [t |-> "str", s |-> str, n |-> 0]

IntV(n) == [t |-> "int", s |-> <<>>, n |-> n]

\* a literal of the source, as a one-element string
Lit(x) == StrV(<<x>>)

RECURSIVE StringsUpTo(_, _)
StringsUpTo(chars, n) ==
    IF n = 0 THEN {<<>>}
    ELSE LET shorter == StringsUpTo(chars, n - 1)
         IN  shorter \cup {Append(x, c) : x \in shorter, c \in chars}

\* str.upper()
UpperChar(c) == IF c = "a" THEN "A" ELSE c

Upper(str) == [i \in 1..Len(str) |-> UpperChar(str[i])]

\* str.split(): the maximal runs of non-blank characters
RECURSIVE SplitFrom(_, _, _, _)
SplitFrom(str, i, cur, acc) ==
    IF i > Len(str) THEN (IF cur = <<>> THEN acc ELSE Append(acc, cur))
    ELSE IF str[i] = " "
         THEN SplitFrom(str, i + 1, <<>>, IF cur = <<>> THEN acc ELSE Append(acc, cur))
         ELSE SplitFrom(str, i + 1, Append(cur, str[i]), acc)

Split(str) == SplitFrom(str, 1, <<>>, <<>>)

\* " ".join(tokens)
RECURSIVE Join(_)
Join(tokens) ==
    IF tokens = <<>> THEN <<>>
    ELSE IF Len(tokens) = 1 THEN tokens[1]
    ELSE tokens[1] \o <<" ">> \o Join(Tail(tokens))

\* str.strip()
RECURSIVE StripLeft(_)
StripLeft(str) ==
    IF str # <<>> /\ Head(str) = " " THEN StripLeft(Tail(str)) ELSE str

RECURSIVE StripRight(_)
StripRight(str) ==
    IF str # <<>> /\ str[Len(str)] = " "
    THEN StripRight(SubSeq(str, 1, Len(str) - 1)) ELSE str

Strip(str) == StripRight(StripLeft(str))

\* parse_simple_address: <<houseNumberString, roadName, roadType>>
parse_simple_address(addr) ==
    LET s == Join(Split(Strip(addr)))
        tokens == Split(Upper(s))
        road_name_tokens == SubSeq(tokens, 2, Len(tokens) - 1)
    IN  IF s = <<>> THEN <<<<>>, <<>>, <<>>>>
        ELSE IF Len(tokens) = 1 THEN <<tokens[1], <<>>, <<>>>>
        ELSE IF road_name_tokens = <<>> THEN <<tokens[1], tokens[2], <<>>>>
        ELSE <<tokens[1], Join(road_name_tokens), tokens[Len(tokens)]>>

DigitChars == {"0", "2", "7"}

DigitVal(c) == CASE c = "0" -> 0 [] c = "2" -> 2 [] c = "7" -> 7

\* "".join(ch for ch in s if ch.isdigit())
DigitsOnly(str) == SelectSeq(str, LAMBDA c : c \in DigitChars)

\* int(s) of a string of digits
RECURSIVE IntOf(_)
IntOf(str) ==
    IF str = <<>> THEN 0 ELSE 10 * IntOf(SubSeq(str, 1, Len(str) - 1)) + DigitVal(str[Len(str)])

\* str(n) of an int postcode
IntStr(n) == CASE n = 0 -> <<"0">> [] n = 27 -> <<"2", "7">> [] n = -7 -> <<"-", "7">>

\* the postcode argument: None, an int or a str
PostcodeStr(postcode) == IF postcode.t = "int" THEN IntStr(postcode.n) ELSE postcode.s

\* _coerce_postcode: int | None
CoerceNone == [some |-> FALSE, n |-> 0]

_coerce_postcode(postcode) ==
    LET s == Strip(PostcodeStr(postcode))
        digits == DigitsOnly(s)
    IN  IF postcode.t = "none" THEN CoerceNone
        ELSE IF s = <<>> THEN CoerceNone
        ELSE IF digits = <<>> THEN CoerceNone
        ELSE [some |-> TRUE, n |-> IntOf(digits)]

Addresses == StringsUpTo({" ", "a"}, MaxAddrLen)

\* suburb: None or a str
Suburbs ==
    {[t |-> "none", s |-> <<>>, n |-> 0]}
    \cup {StrV(x) : x \in StringsUpTo({" ", "S"}, MaxSuburbLen)}

Postcodes ==
    {[t |-> "none", s |-> <<>>, n |-> 0]}
    \cup {IntV(n) : n \in {0, 27, -7}}
    \cup {StrV(x) : x \in StringsUpTo({" ", "2", "x"}, MaxPostcodeLen)}

\* `if suburb and str(suburb).strip()`
SuburbGiven(suburb) == suburb.t = "str" /\ suburb.s # <<>> /\ Strip(suburb.s) # <<>>

\* address_to_point, lines 95-100: the parameters that are always set
BaseParams(address) ==
    LET parsed == parse_simple_address(address)
    IN  ("houseNumber" :> StrV(parsed[1]))
        @@ ("roadName" :> StrV(parsed[2]))
        @@ ("roadType" :> StrV(parsed[3]))
        @@ ("projection" :> Lit("EPSG:4326"))

\* address_to_point, lines 92-106: the params mapping of the outgoing request
AddressParams(address, suburb, postcode) ==
    LET pcode == _coerce_postcode(postcode)
        sub == IF SuburbGiven(suburb) THEN ("suburb" :> StrV(Strip(suburb.s))) ELSE <<>>
        pcd == IF pcode.some THEN ("postCode" :> IntV(pcode.n)) ELSE <<>>
    IN  pcd @@ sub @@ BaseParams(address)

\* lots_plans_from_point, lines 121-130
LotsParams ==
    [k \in {"f", "geometry", "geometryType", "inSR", "spatialRel", "outFields",
            "returnGeometry", "outSR"} |-> Lit(k)]

\* nearby_lots, lines 160-171
NearbyParams ==
    [k \in {"f", "geometry", "geometryType", "inSR", "outSR", "spatialRel", "distance",
            "units", "outFields", "returnGeometry"} |-> Lit(k)]

\* lot_geometry_mga_from_point, lines 221-231
IdentifyParams ==
    [k \in {"f", "geometry", "geometryType", "sr", "tolerance", "returnGeometry",
            "imageDisplay", "mapExtent", "layers"} |-> Lit(k)]

\* lot_geometry_mga_from_point, lines 259-265
QueryParams == [k \in {"f", "where", "outFields", "returnGeometry", "outSR"} |-> Lit(k)]

(***************************************************************************)
(* The business functions. The members of a body other than `error` are    *)
(* its data: 0 is a body without entries (no results, features or          *)
(* addresses), 1 a body whose first entry lacks the field the function     *)
(* reads (objectid, rings, lotnumber and planlabel, addressPoint), and a   *)
(* larger number a body whose first entry has that field with that value.  *)
(***************************************************************************)
DefaultRetries == 2

\* js.get("features") or [] and the like
Entries(js) == IF js.data <= 0 THEN <<>> ELSE <<js.data>>

\* the list a function builds from the entries that have the field it reads
Projected(js) == SelectSeq(Entries(js), LAMBDA d : d >= 2)

\* requests.get(...); r.raise_for_status(); js = r.json(), outside _get_json:
\* the exception it raises, NoExc when js is bound
DirectRaises(o, jcls) ==
    CASE o.t \in {"Timeout", "ConnectionError"} -> Exc(o.t)
      [] o.t = "status" -> Exc("HTTPError")
      [] o.t = "badjson" -> Exc(jcls)
      [] OTHER -> NoExc

\* _run_arcgis_call: what the caller of the wrapper gets for the outcome r of fn
RunArcgisCall(r) ==
    IF r.kind = "raise" /\ r.exc.cls = "RuntimeError" THEN LibReturnedNone ELSE r

Finish(w, r) == IF w THEN RunArcgisCall(r) ELSE r

InitLib ==
    /\ retries = DefaultRetries
    /\ debug = FALSE
    /\ jsonErrCls \in {"RequestsJSONDecodeError", "ValueError"}
    /\ script = <<>>
    /\ pc = "idle"
    /\ attempt = 0
    /\ last_exc = NoExc
    /\ sleep_s = <<0, 0>>
    /\ requests = 0
    /\ responses = 0
    /\ sleeps = <<>>
    /\ diag = 0
    /\ result = NoResult
    /\ lastOutcome = NoOutcome
    /\ callNo = 0
    /\ prev = NoPrev
    /\ libpc = "idle"
    /\ fn = "none"
    /\ wrapped = FALSE
    /\ sentParams = <<>>
    /\ oid = 0
    /\ libResult = NoLibResult
    /\ features = <<>>
    /\ out = <<>>
    /\ lotpc = "none"

\* a caller calls the business function f, directly or through _run_arcgis_call
LibCall(f, w) ==
    /\ libpc = "idle"
    /\ fn' = f
    /\ wrapped' = w
    /\ UNCHANGED <<retries, debug, jsonErrCls, prev>>
    /\ UNCHANGED lotvars

\* a function that calls _get_json: lines 120-132 and 159-173
CallGetJson(f, w) ==
    /\ LibCall(f, w)
    /\ Enter
    /\ script' = <<>>
    /\ libpc' = "client"
    /\ libResult' = NoLibResult
    /\ oid' = 0

\* a request made with requests.get outside _get_json, as the k-th of the function
DirectGet(k, o) ==
    /\ IF k = 0 THEN script' = <<o>> ELSE Transport(k, o)
    /\ requests' = k + 1
    /\ responses' = (IF k = 0 THEN 0 ELSE responses) + (IF Responded(o) THEN 1 ELSE 0)
    /\ lastOutcome' = o
    /\ attempt' = 0
    /\ last_exc' = NoExc
    /\ sleep_s' = <<0, 0>>
    /\ sleeps' = <<>>
    /\ diag' = 0
    /\ result' = NoResult
    /\ pc' = "idle"

\* lots_plans_from_point, lines 120-132: up to the call of _get_json
LotsPlansFromPoint ==
    \E w \in BOOLEAN :
        /\ sentParams' = LotsParams
        /\ CallGetJson("lots_plans_from_point", w)

\* nearby_lots, lines 159-173: up to the call of _get_json
NearbyLots ==
    \E w \in BOOLEAN :
        /\ sentParams' = NearbyParams
        /\ CallGetJson("nearby_lots", w)

\* lots_plans_from_point, lines 132-151, and nearby_lots, lines 173-189: _get_json
\* has ended; its exception propagates, its value is projected
GetJsonReturn ==
    /\ libpc = "client"
    /\ pc = "done"
    /\ libResult' = Finish(wrapped,
                           IF result.kind = "raise" THEN LibRaised(result.exc)
                           ELSE LibReturned(Projected(result.value)))
    /\ libpc' = "done"
    /\ UNCHANGED <<retries, debug, jsonErrCls, script, pc, attempt, last_exc, sleep_s,
                   requests, responses, sleeps, diag, result, lastOutcome, callNo, prev,
                   fn, wrapped, sentParams, oid>>
    /\ UNCHANGED lotvars

\* lot_geometry_mga_from_point, lines 216-255: the epsg check and the identify request
LotGeometryIdentify ==
    \E w \in BOOLEAN, epsgOk \in BOOLEAN, o \in Outcomes :
        /\ LibCall("lot_geometry_mga_from_point", w)
        /\ callNo' = callNo + 1
        /\ IF ~epsgOk
           THEN /\ libResult' = Finish(w, LibRaised(Exc("ValueError")))
                /\ libpc' = "done"
                /\ script' = <<>>
                /\ sentParams' = <<>>
                /\ requests' = 0
                /\ responses' = 0
                /\ lastOutcome' = NoOutcome
                /\ attempt' = 0
                /\ last_exc' = NoExc
                /\ sleep_s' = <<0, 0>>
                /\ sleeps' = <<>>
                /\ diag' = 0
                /\ result' = NoResult
                /\ pc' = "idle"
           ELSE /\ DirectGet(0, o)
                /\ sentParams' = IdentifyParams
                /\ IF DirectRaises(o, jsonErrCls) # NoExc
                   THEN /\ libResult' = Finish(w, LibRaised(DirectRaises(o, jsonErrCls)))
                        /\ libpc' = "done"
                   ELSE IF Projected(o.js) = <<>>
                   THEN /\ libResult' = Finish(w, LibReturned(<<>>))
                        /\ libpc' = "done"
                   ELSE /\ libResult' = NoLibResult
                        /\ libpc' = "query"
        /\ oid' = IF epsgOk /\ DirectRaises(o, jsonErrCls) = NoExc /\ Projected(o.js) # <<>>
                  THEN Projected(o.js)[1] ELSE 0

\* lot_geometry_mga_from_point, lines 258-288: the query request and the rings
LotGeometryQuery ==
    \E o \in Outcomes :
        /\ libpc = "query"
        /\ DirectGet(1, o)
        /\ sentParams' = QueryParams
        /\ libResult' = Finish(wrapped,
                               IF DirectRaises(o, jsonErrCls) # NoExc
                               THEN LibRaised(DirectRaises(o, jsonErrCls))
                               ELSE LibReturned(Projected(o.js)))
        /\ libpc' = "done"
        /\ UNCHANGED <<retries, debug, jsonErrCls, callNo, prev, fn, wrapped, oid>>
        /\ UNCHANGED lotvars

\* address_to_point, lines 92-106: the params mapping is built
AddressToPoint ==
    \E address \in Addresses, suburb \in Suburbs, postcode \in Postcodes :
        /\ LibCall("address_to_point", FALSE)
        /\ sentParams' = AddressParams(address, suburb, postcode)
        /\ libpc' = "address"
        /\ libResult' = NoLibResult
        /\ UNCHANGED <<script, pc, attempt, last_exc, sleep_s, requests, responses, sleeps,
                       diag, result, lastOutcome, callNo, oid>>

\* address_to_point, lines 108-132: the request and the first address of the answer
AddressToPointGet ==
    \E o \in Outcomes :
        /\ libpc = "address"
        /\ DirectGet(0, o)
        /\ libResult' =
              IF DirectRaises(o, jsonErrCls) # NoExc
              THEN LibRaised(DirectRaises(o, jsonErrCls))
              ELSE IF Entries(o.js) = <<>>
              THEN LibRaised(RuntimeError("No address found", None, None, None))
              ELSE IF Projected(o.js) = <<>>
              THEN LibRaised(RuntimeError("Address found but no addressPoint returned",
                                          None, None, None))
              ELSE LibReturned(Projected(o.js))
        /\ libpc' = "done"
        /\ callNo' = callNo + 1
        /\ UNCHANGED <<retries, debug, jsonErrCls, prev, fn, wrapped, sentParams, oid>>
        /\ UNCHANGED lotvars

NextLib ==
    \/ LotsPlansFromPoint
    \/ NearbyLots
    \/ GetJsonReturn
    \/ LotGeometryIdentify
    \/ LotGeometryQuery
    \/ AddressToPoint
    \/ AddressToPointGet
    \/ AttemptReturn
    \/ AttemptRetry
    \/ AttemptBreak
    \/ AttemptHttpError
    \/ AttemptPropagate

SpecLib == InitLib /\ [][NextLib]_vars

(***************************************************************************)
(* lots_plans_from_point, lines 134-151: the list built from the features  *)
(* of the body that _get_json returned. A feature is its `attributes`      *)
(* member: whether it is present, and the values of the keys the function  *)
(* reads (None for a missing key or a JSON null).                          *)
(***************************************************************************)
MaxFeatures == 3

NoAttributes ==
    [attrs |-> FALSE, lotnumber |-> None, sectionnumber |-> None,
     sectionumber |-> None, planlabel |-> None]

Features ==
    {NoAttributes}
    \cup {[attrs |-> TRUE, lotnumber |-> l, sectionnumber |-> sp[1],
           sectionumber |-> sp[2], planlabel |-> p] :
             l \in {None, "", "5"},
             sp \in {<<None, None>>, <<"NULL", None>>, <<None, "B">>},
             p \in {None, "DP1"}}

RECURSIVE ListsUpTo(_, _)
ListsUpTo(S, n) ==
    IF n = 0 THEN {<<>>}
    ELSE LET shorter == ListsUpTo(S, n - 1)
         IN  shorter \cup {Append(x, e) : x \in shorter, e \in S}

FeatureLists == ListsUpTo(Features, MaxFeatures)

\* the truth value Python gives a str | None
Truthy(v) == v # None /\ v # ""

\* a or b
Or(a, b) == IF Truthy(a) THEN a ELSE b

\* sec.strip().lower()
StripLower(v) ==
    CASE v = "NULL" -> "null"
      [] v = "B" -> "b"
      [] OTHER -> v

\* lines 141-143: sec, with the textual null normalised
Section(feat) ==
    LET sec == Or(feat.sectionnumber, feat.sectionumber)
    IN  IF sec # None /\ StripLower(sec) \in {"null", ""} THEN None ELSE sec

\* lines 139-146: key = (lot, sec, plan)
Key(feat) == <<feat.lotnumber, Section(feat), feat.planlabel>>

InSeq(x, sq) == \E i \in 1..Len(sq) : sq[i] = x

\* line 147: if (lot or plan) and key not in seen
Keep(key, acc) == (Truthy(key[1]) \/ Truthy(key[3])) /\ ~InSeq(key, acc)

\* lines 135-151: the loop over the features, from the i-th on, with out = acc
\* (seen holds the elements of out)
RECURSIVE LotsLoop(_, _, _)
LotsLoop(feats, i, acc) ==
    IF i > Len(feats) THEN acc
    ELSE LotsLoop(feats, i + 1,
                  IF Keep(Key(feats[i]), acc) THEN Append(acc, Key(feats[i])) ELSE acc)

InitLots ==
    /\ retries = DefaultRetries
    /\ debug = FALSE
    /\ jsonErrCls = "RequestsJSONDecodeError"
    /\ script = <<>>
    /\ pc = "idle"
    /\ attempt = 0
    /\ last_exc = NoExc
    /\ sleep_s = <<0, 0>>
    /\ requests = 0
    /\ responses = 0
    /\ sleeps = <<>>
    /\ diag = 0
    /\ result = NoResult
    /\ lastOutcome = NoOutcome
    /\ callNo = 0
    /\ prev = NoPrev
    /\ libpc = "none"
    /\ fn = "lots_plans_from_point"
    /\ wrapped = FALSE
    /\ sentParams = LotsParams
    /\ oid = 0
    /\ libResult = NoLibResult
    /\ features \in FeatureLists
    /\ out = <<>>
    /\ lotpc = "js"

\* lots_plans_from_point, lines 134-151
LotsPlansProject ==
    /\ lotpc = "js"
    /\ out' = LotsLoop(features, 1, <<>>)
    /\ lotpc' = "done"
    /\ UNCHANGED <<retries, debug, jsonErrCls, script, pc, attempt, last_exc, sleep_s,
                   requests, responses, sleeps, diag, result, lastOutcome, callNo, prev,
                   libpc, fn, wrapped, sentParams, oid, libResult, features>>

NextLots == LotsPlansProject

SpecLots == InitLots /\ [][NextLots]_vars

(***************************************************************************)
(* Properties of the request client.                                       *)
(***************************************************************************)
Transient(o) == o.t \in {"Timeout", "ConnectionError"}

\* C1 (retry bound): a call whose transport raised a timeout or a connection failure
\* on every attempt has issued exactly retries + 1 requests when it ends, and ends
\* with the "Network timeout" RuntimeError raised from the last attempt's exception.
C1_RetryBound ==
    (pc = "done" /\ Transient(lastOutcome)) =>
        /\ requests = retries + 1
        /\ result = Raised(RuntimeError("Network timeout", None, None, lastOutcome.t))

C1_Witness ==
    /\ pc = "done"
    /\ requests = 3
    /\ script[1].t = "Timeout"
    /\ lastOutcome.t = "ConnectionError"
    /\ result.exc.cause = "ConnectionError"

\* C2 (attempt bound): a call issues at most retries + 1 requests, at most one of them
\* receives an HTTP response, and that one is the last request of the call: once a
\* response has arrived the call has ended.
C2_AttemptBound ==
    /\ requests <= retries + 1
    /\ responses <= 1
    /\ responses = 1 => (pc = "done" /\ Responded(lastOutcome))

C2_Witness ==
    /\ pc = "done"
    /\ retries >= 1
    /\ requests = retries + 1
    /\ responses = 1

\* C3 (no retry on service error): when the latest request received a body with a
\* top-level `error` member, the call has ended on that attempt with the "ArcGIS error"
\* RuntimeError carrying the member's message and details, and the only sleeps of the
\* call are those after the earlier transient failures.
C3_NoRetryOnServiceError ==
    (lastOutcome.t = "json" /\ HasErrorKey(lastOutcome.js)) =>
        /\ pc = "done"
        /\ result = Raised(RuntimeError("ArcGIS error", lastOutcome.js.error.message,
                                        lastOutcome.js.error.details, None))
        /\ Len(sleeps) = requests - 1
        /\ responses = 1

C3_Witness ==
    /\ pc = "done"
    /\ retries >= 1
    /\ requests = 1
    /\ lastOutcome.t = "json"
    /\ lastOutcome.js.error.kind = "object"
    /\ lastOutcome.js.error.message \in RETRYABLE_ARCGIS_MESSAGES
    /\ result.exc.label = "ArcGIS error"

\* C4 (no retry on HTTP error status): when the latest request received a non-2xx
\* status, the call has ended on that attempt with the "HTTP error" RuntimeError,
\* whether or not transient failures were retried before and retries remain.
C4_NoRetryOnHttpStatus ==
    lastOutcome.t = "status" =>
        /\ pc = "done"
        /\ result = Raised(RuntimeError("HTTP error", None, None, "HTTPError"))
        /\ Len(sleeps) = requests - 1
        /\ responses = 1

C4_Witness ==
    /\ pc = "done"
    /\ lastOutcome.t = "status"
    /\ requests = 2
    /\ retries = 2
    /\ result.exc.label = "HTTP error"

\* C5 (success passthrough): when the latest request received a body without a
\* top-level `error` member, the call has returned exactly that body, on the first
\* attempt and on every retry attempt.
C5_SuccessPassthrough ==
    (lastOutcome.t = "json" /\ ~HasErrorKey(lastOutcome.js)) =>
        /\ pc = "done"
        /\ result.kind = "return"
        /\ result.value = lastOutcome.js

C5_Witness ==
    /\ pc = "done"
    /\ requests = 3
    /\ result.kind = "return"
    /\ result.value.data = 2

\* the failure kind that occurred in a finished call, from its last transport outcome
FailureKind(o) ==
    CASE Transient(o) -> "NetworkTimeout"
      [] o.t = "status" -> "HttpError"
      [] o.t = "badjson" -> "JsonParseError"
      [] o.t = "json" /\ HasErrorKey(o.js) -> "ServiceError"
      [] OTHER -> "none"

\* what a caller can match a failure on: the exception class and the fixed part of
\* its message
Observable(r) == <<r.exc.cls, r.exc.label>>

\* C6 (distinguishable failure taxonomy): two calls that failed with different failure
\* kinds reach the caller as different failures.
C6_Distinguishable ==
    (/\ pc = "done"
     /\ callNo >= 2
     /\ result.kind = "raise"
     /\ prev.result.kind = "raise"
     /\ FailureKind(lastOutcome) # FailureKind(prev.lastOutcome))
        => Observable(result) # Observable(prev.result)

\* C10 (no hidden state between calls): a call with the inputs of the call before it
\* starts with attempt = 0 and no last exception, and ends with the same number of
\* requests and the same terminal outcome as the call before.
C10_Idempotent ==
    /\ (pc = "loop" /\ requests = 0) => (attempt = 0 /\ last_exc = NoExc)
    /\ (pc = "done" /\ prev.same /\ prev.debug = debug) =>
          (result = prev.result /\ requests = prev.requests)

C10_Witness ==
    /\ pc = "done"
    /\ prev.same
    /\ prev.debug = debug
    /\ requests = 3
    /\ Transient(lastOutcome)
    /\ prev.result.kind = "raise"
    /\ result = prev.result

\* C11 (backoff schedule): the i-th sleep of a call follows the failed attempt with
\* index i - 1 and has the pre-jitter duration 0.6 * 2^(i-1) s (6 * 2^(i-1) tenths), so
\* the pre-jitter durations of a call strictly increase; there are at most `retries`
\* sleeps, and the jitter of the latest sleep is at least 0 and below 0.4 s.
C11_BackoffSchedule ==
    /\ \A i \in 1..Len(sleeps) : sleeps[i] = 6 * 2^(i - 1)
    /\ \A i \in 1..(Len(sleeps) - 1) : sleeps[i] < sleeps[i + 1]
    /\ Len(sleeps) <= retries
    /\ pc = "loop" => Len(sleeps) = attempt
    /\ sleeps # <<>> =>
          (/\ sleep_s[1] = sleeps[Len(sleeps)]
           /\ sleep_s[2] >= 0
           /\ sleep_s[2] < 4)

C11_Witness ==
    /\ pc = "loop"
    /\ attempt = 3
    /\ sleeps = <<6, 12, 24>>
    /\ sleep_s = <<24, 3>>

\* C13 (the debug flag does not affect control flow): a call that differs from the
\* call before it only in the debug flag issues the same number of requests, performs
\* the same sleeps with the same pre-jitter durations and ends in the same terminal
\* outcome; a call without the flag prints nothing.
C13_DebugNoControlFlow ==
    /\ (pc = "done" /\ prev.same /\ prev.debug # debug) =>
          (/\ result = prev.result
           /\ requests = prev.requests
           /\ sleeps = prev.sleeps)
    /\ ~debug => diag = 0

C13_Witness ==
    /\ pc = "done"
    /\ prev.same
    /\ ~prev.debug
    /\ debug
    /\ requests = 2
    /\ sleeps = <<6>>
    /\ lastOutcome.t = "json"
    /\ HasErrorKey(lastOutcome.js)
    /\ result = prev.result
    /\ diag = 6

C7_AllThroughClient ==
    (libpc = "done" /\ ~wrapped) =>
        /\ Transient(lastOutcome) =>
              (/\ Len(sleeps) = DefaultRetries
               /\ libResult = LibRaised(RuntimeError("Network timeout", None, None,
                                                     lastOutcome.t)))
        /\ (lastOutcome.t = "json" /\ HasErrorKey(lastOutcome.js)) =>
              (libResult.kind = "raise" /\ libResult.exc.label = "ArcGIS error")

\* C8 (failures are never downgraded): when a library function has ended and its last
\* remote call ended in one of the failure kinds, the caller of the function observes
\* a raised failure, never a returned list or None.
C8_NeverDowngraded ==
    (libpc = "done" /\ FailureKind(lastOutcome) # "none") => libResult.kind = "raise"

\* C9 (parameter omission): every key of the params mapping that address_to_point
\* sends has a non-empty value.
C9_ParameterOmission ==
    (fn = "address_to_point" /\ libpc \in {"address", "done"}) =>
        \A k \in DOMAIN sentParams : sentParams[k] # StrV(<<>>)

(***************************************************************************)
(* Properties of lots_plans_from_point.                                    *)
(***************************************************************************)
\* the index of the first feature with the key k
FirstIndex(k) == CHOOSE i \in 1..Len(features) :
                    /\ Key(features[i]) = k
                    /\ \A j \in 1..(i - 1) : Key(features[j]) # k

\* the returned list has no duplicate tuple and keeps the order of first occurrence
NoDuplicatesInOrder ==
    /\ \A i, j \in 1..Len(out) : i # j => out[i] # out[j]
    /\ \A i \in 1..Len(out) : InSeq(out[i], [n \in 1..Len(features) |-> Key(features[n])])
    /\ \A i, j \in 1..Len(out) : i < j => FirstIndex(out[i]) < FirstIndex(out[j])

\* C12 as claimed: every returned tuple has a non-null lot number and a non-null plan
\* label; the list has no duplicate tuple and keeps the order of first occurrence.
C12_LotAndPlanNonNull ==
    lotpc = "done" =>
        /\ \A i \in 1..Len(out) : out[i][1] # None /\ out[i][3] # None
        /\ NoDuplicatesInOrder

\* What line 147 does establish: every returned tuple has a non-empty lot number or a
\* non-empty plan label, and every feature that has one of the two is represented; the
\* list has no duplicate tuple and keeps the order of first occurrence.
LotOrPlanKept ==
    lotpc = "done" =>
        /\ \A i \in 1..Len(out) : Truthy(out[i][1]) \/ Truthy(out[i][3])
        /\ \A n \in 1..Len(features) :
              (Truthy(features[n].lotnumber) \/ Truthy(features[n].planlabel))
                  => InSeq(Key(features[n]), out)
        /\ NoDuplicatesInOrder

====
